---- MODULE Spec2Model ----
(***************************************************************************)
(* rust_grep: Config::new, run, search, search_case_insensitive (lib.rs)   *)
(* and main (main.rs).                                                     *)
(*                                                                         *)
(* A string is a sequence of one-character strings; the line feed and the  *)
(* carriage return are the characters LF and CR.                           *)
(*                                                                         *)
(* Two specifications:                                                     *)
(*   Spec        one run of the program, from main to process exit;        *)
(*   SearchSpec  one call of search or search_case_insensitive on inputs   *)
(*               drawn from bounded sets.                                  *)
(***************************************************************************)
EXTENDS Integers, Sequences, FiniteSets, TLC

\* ---------------------------------------------------------------- bounds
\* longest content handed to the matchers (SearchSpec)
MaxContentLen == 4
\* longest query handed to the matchers (SearchSpec)
MaxQueryLen == 2
\* longest file content read by run (Spec)
MaxFileLen == 3
\* longest argument sequence, program name included (Spec)
MaxArgs == 4

\* ------------------------------------------------------------ characters
LF == "LF"
CR == "CR"
Letters == {"a", "A"}
Alphabet == Letters \cup {LF, CR}

StrsUpTo(S, n) == UNION {[1..k -> S] : k \in 0..n}

Last(s) == s[Len(s)]
Front(s) == SubSeq(s, 1, Len(s) - 1)

\* ------------------------------------------------------------ str::lines
\* position of the first line feed of s, 0 when there is none
RECURSIVE FirstLF(_, _)
FirstLF(s, k) ==
    IF k > Len(s) THEN 0
    ELSE IF s[k] = LF THEN k
    ELSE FirstLF(s, k + 1)

\* the pieces of s, each ending with its line feed (the last one may not)
RECURSIVE SplitInclusive(_)
SplitInclusive(s) ==
    IF s = <<>> THEN <<>>
    ELSE LET k == FirstLF(s, 1)
         IN IF k = 0 THEN <<s>>
            ELSE <<SubSeq(s, 1, k)>> \o SplitInclusive(SubSeq(s, k + 1, Len(s)))

\* mutant of StripLine: the carriage return before the line feed is kept
StripLineKeepCR(p) ==
    IF p # <<>> /\ Last(p) = LF THEN Front(p) ELSE p

\* a piece without its "\n" or "\r\n"
StripLine(p) ==
    IF p # <<>> /\ Last(p) = LF
    THEN LET l == Front(p)
         IN IF l # <<>> /\ Last(l) = CR THEN Front(l) ELSE l
    ELSE p

\* contents.lines()
Lines(s) ==
    LET ps == SplitInclusive(s)
    IN [i \in 1..Len(ps) |-> StripLine(ps[i])]

\* mutant of Enumerate: line numbers start at 1
EnumerateFromOne(ls) == [i \in 1..Len(ls) |-> <<i, ls[i]>>]

\* .enumerate()
Enumerate(ls) == [i \in 1..Len(ls) |-> <<i - 1, ls[i]>>]

\* --------------------------------------------------------- str::contains
\* mutant of Contains: the needle is only looked for at the start
ContainsPrefixOnly(hay, needle) ==
    /\ Len(needle) <= Len(hay)
    /\ SubSeq(hay, 1, Len(needle)) = needle

\* mutant of Contains: the scan needs a position of the haystack to start at
ContainsNonEmptyHay(hay, needle) ==
    /\ hay # <<>>
    /\ \E at \in 1..Len(hay) :
          /\ at + Len(needle) - 1 <= Len(hay)
          /\ SubSeq(hay, at, at + Len(needle) - 1) = needle

RECURSIVE MatchAt(_, _, _, _)
MatchAt(hay, needle, at, j) ==
    IF j > Len(needle) THEN TRUE
    ELSE IF at + j - 1 > Len(hay) THEN FALSE
    ELSE IF hay[at + j - 1] # needle[j] THEN FALSE
    ELSE MatchAt(hay, needle, at, j + 1)

RECURSIVE ContainsFrom(_, _, _)
ContainsFrom(hay, needle, at) ==
    IF at + Len(needle) - 1 > Len(hay) THEN FALSE
    ELSE IF MatchAt(hay, needle, at, 1) THEN TRUE
    ELSE ContainsFrom(hay, needle, at + 1)

\* line.contains(query)
Contains(hay, needle) == ContainsFrom(hay, needle, 1)

\* ------------------------------------------------------ str::to_lowercase
LowerChar(ch) == IF ch = "A" THEN "a" ELSE ch

ToLowercase(s) == [i \in 1..Len(s) |-> LowerChar(s[i])]

\* -------------------------------------------------------------- matchers
\* pub fn search
search(query, contents) ==
    LET keep(p) == Contains(p[2], query)
    IN SelectSeq(Enumerate(Lines(contents)), keep)

\* mutant of search_case_insensitive: the lowercased line is returned
search_ci_returns_lowered(query, contents) ==
    LET ls == Lines(contents)
        low == [i \in 1..Len(ls) |-> ToLowercase(ls[i])]
        keep(p) == Contains(p[2], ToLowercase(query))
    IN SelectSeq(Enumerate(low), keep)

\* pub fn search_case_insensitive
search_case_insensitive(query, contents) ==
    LET keep(p) == Contains(ToLowercase(p[2]), ToLowercase(query))
    IN SelectSeq(Enumerate(Lines(contents)), keep)

\* ------------------------------------------------------------ Config::new
\* the states of the environment variable CASE_INSENSITIVE
EnvStates == {"unset", "set_empty", "set_value", "set_not_unicode"}

\* env::var("CASE_INSENSITIVE"): Err(NotPresent) when the variable is unset,
\* Err(NotUnicode) when its value is not valid Unicode, Ok(value) otherwise
EnvVar(e) ==
    CASE e = "unset" -> [ok |-> FALSE, err |-> "NotPresent"]
      [] e = "set_not_unicode" -> [ok |-> FALSE, err |-> "NotUnicode"]
      [] OTHER -> [ok |-> TRUE, err |-> "none"]

\* args.next()
ArgsNext(it) ==
    IF it = <<>> THEN [some |-> FALSE, val |-> <<>>, rest |-> <<>>]
    ELSE [some |-> TRUE, val |-> Head(it), rest |-> Tail(it)]

ErrMissingQuery == "Did not get a query string."
ErrMissingFilename == "Did not get a filename."

NoConfig ==
    [ok |-> FALSE, err |-> "none", query |-> <<>>, filename |-> <<>>,
     case_insensitive |-> FALSE]

ConfigErr(msg) == [NoConfig EXCEPT !.err = msg]

\* mutant of ConfigNew: the program name is not skipped
ConfigNewNoSkip(a, e) ==
    LET q == ArgsNext(a)
        f == ArgsNext(q.rest)
    IN IF ~q.some THEN ConfigErr(ErrMissingQuery)
       ELSE IF ~f.some THEN ConfigErr(ErrMissingFilename)
       ELSE [ok |-> TRUE, err |-> "none", query |-> q.val, filename |-> f.val,
             case_insensitive |-> ~EnvVar(e).ok]

\* mutant of ConfigNew: the flag is true only when the variable is unset
ConfigNewNotPresentOnly(a, e) ==
    LET skipped == ArgsNext(a)
        q == ArgsNext(skipped.rest)
        f == ArgsNext(q.rest)
    IN IF ~q.some THEN ConfigErr(ErrMissingQuery)
       ELSE IF ~f.some THEN ConfigErr(ErrMissingFilename)
       ELSE [ok |-> TRUE, err |-> "none", query |-> q.val, filename |-> f.val,
             case_insensitive |-> (e = "unset")]

\* Config::new(args), the environment being in state e
ConfigNew(a, e) ==
    LET skipped == ArgsNext(a)
        q == ArgsNext(skipped.rest)
        f == ArgsNext(q.rest)
    IN IF ~q.some THEN ConfigErr(ErrMissingQuery)
       ELSE IF ~f.some THEN ConfigErr(ErrMissingFilename)
       ELSE [ok |-> TRUE, err |-> "none", query |-> q.val, filename |-> f.val,
             case_insensitive |-> ~EnvVar(e).ok]

\* ------------------------------------------------------------------- run
\* println!("{}: {}", i, line)
FormatLine(p) == <<ToString(p[1]), ":", " ">> \o p[2]

\* the results run gets for a configuration and the file's contents
RunResults(cfg, text) ==
    IF cfg.case_insensitive
    THEN search(cfg.query, text)
    ELSE search_case_insensitive(cfg.query, text)

\* ================================================================= state
VARIABLES
    pc,          \* where the process is: "main", "run_read", "run_search",
                 \* "run_print", "exited"
    args,        \* env::args(): the argument sequence, program name first
    envVar,      \* the state of CASE_INSENSITIVE, one of EnvStates
    config,      \* the value Config::new returned
    readOk,      \* whether fs::read_to_string succeeded
    fileReads,   \* how many times the file has been read
    contents,    \* run's `contents`
    results,     \* run's `results` not yet printed
    stdout,      \* lines written to standard output
    stderr,      \* lines written to standard error
    exitCode,    \* the process exit status, -1 while running
    fquery,      \* SearchSpec: the query of the call
    fcontents,   \* SearchSpec: the contents of the call
    fcall,       \* SearchSpec: "none", "search", "search_case_insensitive"
    fresult      \* SearchSpec: the returned vector

progVars ==
    <<pc, args, envVar, config, readOk, fileReads, contents, results, stdout,
      stderr, exitCode>>
fnVars == <<fquery, fcontents, fcall, fresult>>
vars == <<progVars, fnVars>>

ArgVals == {<<"A">>, <<"a">>}
\* the name the program was invoked by, position 0 of env::args()
ProgName == <<"p">>
\* no argument at all, or the program name followed by up to MaxArgs - 1
\* arguments
ArgSeqs ==
    {<<>>} \cup {<<ProgName>> \o rest : rest \in StrsUpTo(ArgVals, MaxArgs - 1)}
\* the files run reads hold letters and line feeds (carriage returns are
\* covered by SearchSpec)
FileContents == StrsUpTo(Letters \cup {LF}, MaxFileLen)

ProgIdle ==
    /\ pc = "off" /\ args = <<>> /\ envVar = "unset" /\ config = NoConfig
    /\ readOk = FALSE /\ fileReads = 0 /\ contents = <<>> /\ results = <<>>
    /\ stdout = <<>> /\ stderr = <<>> /\ exitCode = -1

FnIdle ==
    /\ fquery = <<>> /\ fcontents = <<>> /\ fcall = "off" /\ fresult = <<>>

\* ------------------------------------------------------ Spec: the program
Init ==
    /\ pc = "main"
    /\ args \in ArgSeqs
    /\ envVar \in EnvStates
    /\ config = NoConfig
    /\ readOk = FALSE
    /\ fileReads = 0
    /\ contents = <<>>
    /\ results = <<>>
    /\ stdout = <<>>
    /\ stderr = <<>>
    /\ exitCode = -1
    /\ FnIdle

\* main: Config::new(env::args()) returned Ok
MainConfigOk ==
    /\ pc = "main"
    /\ ConfigNew(args, envVar).ok
    /\ config' = ConfigNew(args, envVar)
    /\ pc' = "run_read"
    /\ UNCHANGED <<args, envVar, readOk, fileReads, contents, results, stdout,
                   stderr, exitCode, fnVars>>

\* mutant of MainConfigErr: the process exits with status 0
MainConfigErrExitZero ==
    /\ pc = "main"
    /\ ~ConfigNew(args, envVar).ok
    /\ config' = ConfigNew(args, envVar)
    /\ stderr' = Append(stderr, <<"Problem parsing arguments: ", config'.err>>)
    /\ exitCode' = 0
    /\ pc' = "exited"
    /\ UNCHANGED <<args, envVar, readOk, fileReads, contents, results, stdout,
                   fnVars>>

\* main: Config::new returned Err; unwrap_or_else reports it and exits
MainConfigErr ==
    /\ pc = "main"
    /\ ~ConfigNew(args, envVar).ok
    /\ config' = ConfigNew(args, envVar)
    /\ stderr' = Append(stderr, <<"Problem parsing arguments: ", config'.err>>)
    /\ exitCode' = 1
    /\ pc' = "exited"
    /\ UNCHANGED <<args, envVar, readOk, fileReads, contents, results, stdout,
                   fnVars>>

\* run: fs::read_to_string(config.filename) returned Ok(text)
RunReadOk ==
    /\ pc = "run_read"
    /\ \E text \in FileContents : contents' = text
    /\ readOk' = TRUE
    /\ fileReads' = fileReads + 1
    /\ pc' = "run_search"
    /\ UNCHANGED <<args, envVar, config, results, stdout, stderr, exitCode,
                   fnVars>>

\* run: fs::read_to_string returned Err; `?` returns it to main, which
\* reports it and exits
RunReadErr ==
    /\ pc = "run_read"
    /\ readOk' = FALSE
    /\ fileReads' = fileReads + 1
    /\ stderr' = Append(stderr, <<"Application error: ", "io">>)
    /\ exitCode' = 1
    /\ pc' = "exited"
    /\ UNCHANGED <<args, envVar, config, contents, results, stdout, fnVars>>

\* run: let results = if config.case_insensitive { .. } else { .. }
RunSearch ==
    /\ pc = "run_search"
    /\ results' = RunResults(config, contents)
    /\ pc' = "run_print"
    /\ UNCHANGED <<args, envVar, config, readOk, fileReads, contents, stdout,
                   stderr, exitCode, fnVars>>

\* run: one iteration of `for (i, line) in results`
RunPrint ==
    /\ pc = "run_print"
    /\ results # <<>>
    /\ stdout' = Append(stdout, FormatLine(Head(results)))
    /\ results' = Tail(results)
    /\ UNCHANGED <<pc, args, envVar, config, readOk, fileReads, contents,
                   stderr, exitCode, fnVars>>

\* run returns Ok(()) and main returns: the process exits with status 0
RunReturnOk ==
    /\ pc = "run_print"
    /\ results = <<>>
    /\ exitCode' = 0
    /\ pc' = "exited"
    /\ UNCHANGED <<args, envVar, config, readOk, fileReads, contents, results,
                   stdout, stderr, fnVars>>

Next ==
    \/ MainConfigOk
    \/ MainConfigErr
    \/ RunReadOk
    \/ RunReadErr
    \/ RunSearch
    \/ RunPrint
    \/ RunReturnOk

Spec == Init /\ [][Next]_vars

\* ----------------------------------------------- SearchSpec: the matchers
Queries == StrsUpTo(Letters, MaxQueryLen)
Contents == StrsUpTo(Alphabet, MaxContentLen)

SearchInit ==
    /\ ProgIdle
    /\ fquery \in Queries
    /\ fcontents \in Contents
    /\ fcall = "none"
    /\ fresult = <<>>

CallSearch ==
    /\ fcall = "none"
    /\ fresult' = search(fquery, fcontents)
    /\ fcall' = "search"
    /\ UNCHANGED <<fquery, fcontents, progVars>>

CallSearchCaseInsensitive ==
    /\ fcall = "none"
    /\ fresult' = search_case_insensitive(fquery, fcontents)
    /\ fcall' = "search_case_insensitive"
    /\ UNCHANGED <<fquery, fcontents, progVars>>

SearchNext ==
    \/ CallSearch
    \/ CallSearchCaseInsensitive

SearchSpec == SearchInit /\ [][SearchNext]_vars

\* FairSpec: the program, whose steps are always eventually taken (the
\* process is single-threaded and synchronous, nothing suspends it)
FairSpec == Spec /\ WF_vars(Next)

\* =============================================================== claims
\* needle occurs in hay as a contiguous substring
Occurs(hay, needle) ==
    \E at \in 1..(Len(hay) + 1) :
        /\ at + Len(needle) - 1 <= Len(hay)
        /\ SubSeq(hay, at, at + Len(needle) - 1) = needle

Increasing(r) ==
    \A j, k \in 1..Len(r) : j < k => r[j][1] < r[k][1]

\* r holds exactly the pairs (i, ls[i+1]) with i in M, in increasing order
ExactlyThePairs(r, ls, M) ==
    /\ Len(r) = Cardinality(M)
    /\ {r[k] : k \in 1..Len(r)} = {<<i, ls[i + 1]>> : i \in M}
    /\ Increasing(r)

FormatAll(r) == [k \in 1..Len(r) |-> FormatLine(r[k])]

\* the line sequence of a content, by the positions of its line feeds
LFPos(c) == {k \in 1..Len(c) : c[k] = LF}
NthLF(c, n) == CHOOSE k \in LFPos(c) : Cardinality({j \in LFPos(c) : j <= k}) = n
NumLines(c) ==
    Cardinality(LFPos(c)) + (IF c # <<>> /\ Last(c) # LF THEN 1 ELSE 0)
LineText(c, i) ==
    LET first == IF i = 0 THEN 1 ELSE NthLF(c, i) + 1
        ended == i < Cardinality(LFPos(c))
        raw == SubSeq(c, first, IF ended THEN NthLF(c, i + 1) - 1 ELSE Len(c))
    IN IF ended /\ raw # <<>> /\ Last(raw) = CR THEN Front(raw) ELSE raw

\* a content without the terminator ("\n" or "\r\n") at its very end
EndsInTerminator(c) == c # <<>> /\ Last(c) = LF
WithoutTerminator(c) ==
    IF Front(c) # <<>> /\ Last(Front(c)) = CR THEN Front(Front(c)) ELSE Front(c)

Matcher(name, q, c) ==
    IF name = "search" THEN search(q, c) ELSE search_case_insensitive(q, c)

\* C1: search returns exactly the pairs (i, line) where line is the i-th
\* (zero-based) line of the content and contains the query case-sensitively,
\* one pair per such line, in line order; a non-empty query occurring in
\* exactly one line gives the single pair of that line's index and text.
C1_SearchExact ==
    fcall = "search" =>
        LET ls == Lines(fcontents)
            M == {i \in 0..(Len(ls) - 1) : Occurs(ls[i + 1], fquery)}
        IN /\ ExactlyThePairs(fresult, ls, M)
           /\ (fquery # <<>> /\ Cardinality(M) = 1) =>
                 \E i \in M : fresult = <<(<<i, ls[i + 1]>>)>>

C1_Witness ==
    /\ fcall = "search"
    /\ fquery # <<>>
    /\ Len(Lines(fcontents)) >= 2
    /\ Len(fresult) = 1
    /\ fresult[1][1] = 1
    /\ fresult[1][2] # fquery

\* C2: search_case_insensitive returns exactly the pairs (i, line) where the
\* lowercased i-th line contains the lowercased query, in line order, and
\* the text of each pair is the original line, not its lowercased form.
C2_SearchCaseInsensitiveExact ==
    fcall = "search_case_insensitive" =>
        LET ls == Lines(fcontents)
            M == {i \in 0..(Len(ls) - 1) :
                    Occurs(ToLowercase(ls[i + 1]), ToLowercase(fquery))}
        IN ExactlyThePairs(fresult, ls, M)

C2_Witness ==
    /\ fcall = "search_case_insensitive"
    /\ \E k \in 1..Len(fresult) :
          /\ ~Occurs(fresult[k][2], fquery)
          /\ fresult[k][2] # ToLowercase(fresult[k][2])

\* C3: a run whose configuration has case_insensitive = TRUE outputs the
\* lines of search_case_insensitive, and one whose configuration has
\* case_insensitive = FALSE outputs the lines of the case-sensitive search.
C3_RunHonoursFlag ==
    (pc = "exited" /\ exitCode = 0) =>
        stdout = FormatAll(IF config.case_insensitive
                           THEN search_case_insensitive(config.query, contents)
                           ELSE search(config.query, contents))

\* C4: for the whole program, CASE_INSENSITIVE present (any value) gives the
\* lines of case-sensitive matching, absent gives those of case-insensitive
\* matching.
C4_EnvPresentDisablesCaseInsensitive ==
    (pc = "exited" /\ exitCode = 0) =>
        stdout = FormatAll(IF envVar = "unset"
                           THEN search_case_insensitive(args[2], contents)
                           ELSE search(args[2], contents))

C6_ConfigNewArguments ==
    pc # "main" =>
        /\ Len(args) <= 1 => (~config.ok /\ config.err = ErrMissingQuery)
        /\ Len(args) = 2 => (~config.ok /\ config.err = ErrMissingFilename)
        /\ Len(args) >= 3 =>
              /\ config.ok
              /\ config.query = args[2]
              /\ config.filename = args[3]

C6_Witness ==
    /\ pc # "main"
    /\ Len(args) = 4
    /\ config.ok
    /\ config.query # args[1]
    /\ config.query # config.filename
    /\ config.filename # args[4]

C8_IndicesAreLinePositions ==
    fcall \in {"search", "search_case_insensitive"} =>
        /\ Increasing(fresult)
        /\ \A k \in 1..Len(fresult) :
              /\ fresult[k][1] \in 0..(Len(Lines(fcontents)) - 1)
              /\ fresult[k][2] = Lines(fcontents)[fresult[k][1] + 1]

C8_Witness ==
    /\ fcall \in {"search", "search_case_insensitive"}
    /\ Len(fresult) >= 2
    /\ fresult[1][1] >= 1
    /\ Len(fresult) < Len(Lines(fcontents))

\* C9: search with the empty query returns every line of the content paired
\* with its zero-based index, and for the empty content it returns the
\* empty sequence.
C9_EmptyQueryMatchesEveryLine ==
    fcall = "search" =>
        /\ fquery = <<>> =>
              /\ Len(fresult) = Len(Lines(fcontents))
              /\ \A k \in 1..Len(fresult) :
                    fresult[k] = <<k - 1, Lines(fcontents)[k]>>
        /\ fcontents = <<>> => fresult = <<>>

C9_Witness ==
    /\ fcall = "search"
    /\ fquery = <<>>
    /\ Len(fresult) >= 2
    /\ \E k \in 1..Len(fresult) : fresult[k][2] = <<>>
    /\ \E k \in 1..Len(fresult) : fresult[k][2] # <<>>

\* the lines the matchers enumerate are the content cut at its line feeds,
\* a carriage return right before a line feed belonging to the break, and
\* no empty last line after a final terminator
LinesAreCutAtTerminators ==
    /\ \A k \in 1..Len(fresult) :
          /\ fresult[k][1] < NumLines(fcontents)
          /\ fresult[k][2] = LineText(fcontents, fresult[k][1])
    /\ fquery = <<>> => Len(fresult) = NumLines(fcontents)

\* C10 as stated: the matchers' lines are the content cut at "\n" and
\* "\r\n", without an empty last line after a final terminator, so a
\* content ending in a terminator gives the same indexed lines as the same
\* content without it.
C10_TrailingTerminatorNeverMatters ==
    fcall \in {"search", "search_case_insensitive"} =>
        /\ LinesAreCutAtTerminators
        /\ EndsInTerminator(fcontents) =>
              fresult = Matcher(fcall, fquery, WithoutTerminator(fcontents))

\* C10 amended: as stated, the last part only for a content whose text
\* before the final terminator is non-empty and does not itself end in a
\* line feed (a final terminator after an empty text or after another
\* terminator ends an empty line, which is enumerated).
C10_TrailingTerminatorAfterText ==
    fcall \in {"search", "search_case_insensitive"} =>
        /\ LinesAreCutAtTerminators
        /\ ( /\ EndsInTerminator(fcontents)
             /\ WithoutTerminator(fcontents) # <<>>
             /\ Last(WithoutTerminator(fcontents)) # LF ) =>
              fresult = Matcher(fcall, fquery, WithoutTerminator(fcontents))

C10_Witness ==
    /\ fcall \in {"search", "search_case_insensitive"}
    /\ Len(fcontents) >= 3
    /\ fcontents[Len(fcontents) - 1] = CR
    /\ Last(fcontents) = LF
    /\ fresult # <<>>
    /\ fresult[Len(fresult)][1] = NumLines(fcontents) - 1
    /\ fresult[Len(fresult)][2] = WithoutTerminator(fcontents)

====
